---- MODULE Spec2Model ----
(***************************************************************************)
(* Model of src/main.py: the two-device / earthquake discrete-event trial  *)
(* (Simulator.simulate), Simulator.reset and the Monte Carlo driver        *)
(* run_simulation.                                                         *)
(*                                                                         *)
(* Times are integers (the source uses floats; only order, equality and    *)
(* addition of times matter to the control flow).  A Weibull draw          *)
(* np.random.weibull(a) * s with s > 0 is a positive duration; it is       *)
(* modelled as a nondeterministic choice from Draws (device intervals) or  *)
(* QuakeDraws (quake arrivals and recurrences).  The devices, the          *)
(* first quake time and maintenance_duration are the arguments of          *)
(* Simulator.__init__ and are chosen from small sets of positive values.   *)
(*                                                                         *)
(* Spec is the Simulator under the call protocol of run_simulation         *)
(* (simulate, reset, simulate, ...) with long trials; DriverSpec is        *)
(* run_simulation itself, with its stages and samples, and short trials.   *)
(***************************************************************************)
EXTENDS Integers, Sequences, FiniteSets, TLC

\* ---- bounds of the model -------------------------------------------------
MaxTime == 7          \* Spec: events later than this are not explored
DriverMaxTime == 1    \* DriverSpec: events later than this are not explored
MaxDraw == 2          \* drawn device durations are 1..MaxDraw
MaxQuakeDraw == 3     \* drawn quake durations are 1..MaxQuakeDraw
MaxInitNext == 2      \* constructed next_maintenance values are 1..MaxInitNext
MaxScale == 2         \* device scales are 1..MaxScale
NumStages == 2        \* len(simulation_runs) (8 in the source)
BaseRuns == 1         \* simulation_runs[0] (1000 in the source)
MaxDuration == 2      \* maintenance_duration is 1..MaxDuration (30 in run_simulation)
SafetyCap == 4        \* an iteration cap a trial is claimed never to pass

Draws == 1..MaxDraw

QuakeDraws == 1..MaxQuakeDraw

\* simulation_runs = [1000 * 2 ** i for i in range(8)]
RECURSIVE Pow2(_)
Pow2(i) == IF i = 0 THEN 1 ELSE 2 * Pow2(i - 1)

simulation_runs == [i \in 1..NumStages |-> BaseRuns * Pow2(i - 1)]

VARIABLES
    device1,            \* self.device1 : Device record
    device2,            \* self.device2 : Device record
    quake,              \* self.quake : time of the next earthquake
    maintenance_duration, \* self.maintenance_duration
    current_time,       \* local of simulate
    pc,                 \* position of the driver / of simulate
    stage,              \* index into simulation_runs (1-based)
    termination_time,   \* value returned by the last simulate call
    termination_times,  \* list of the current stage
    average_times,      \* one entry per finished stage: <<sum, count>> of the stage's sample
    constructed,        \* <<device1, device2>> as passed to Simulator.__init__ (history)
    last_event,         \* handler that ran in the last loop iteration (history)
    max_event_time,     \* latest event time handled in the current trial (history)
    iterations,         \* loop iterations handled in the current trial (history)
    horizon             \* events later than this are not explored (model bound)

vars == <<device1, device2, quake, maintenance_duration, current_time, pc, stage,
          termination_time, termination_times, average_times, constructed,
          last_event, max_event_time, iterations, horizon>>

\* Device = namedtuple("Device", [...])
Device(name, shape, scale, next_maintenance, end_maintenance, failed) ==
    [name |-> name, shape |-> shape, scale |-> scale,
     next_maintenance |-> next_maintenance,
     end_maintenance |-> end_maintenance, failed |-> failed]

Min2(a, b) == IF a <= b THEN a ELSE b

\* next_event = min(device1.next_maintenance, device2.next_maintenance, quake)
next_event == Min2(Min2(device1.next_maintenance, device2.next_maintenance), quake)

\* current_time < device1.end_maintenance and current_time < device2.end_maintenance
BothIn(d1, d2, t) == t < d1.end_maintenance /\ t < d2.end_maintenance

BothInMaintenance(t) == BothIn(device1, device2, t)

\* the condition of the break
MutStopCondition == BothInMaintenance(current_time)

StopCondition == next_event = quake /\ BothInMaintenance(current_time)

\* ---- construction --------------------------------------------------------
\* run_simulation lines 104-111 and Simulator.__init__ (lines 45-49); the
\* driver is about to enter the first stage.
Build(h, durations) ==
    \E n1, n2 \in 1..MaxInitNext, s1, s2 \in 1..MaxScale, q \in QuakeDraws, md \in durations :
        /\ device1 = Device("Device 1", 2, s1, n1, 0, FALSE)
        /\ device2 = Device("Device 2", 3, s2, n2, 0, FALSE)
        /\ constructed = <<device1, device2>>
        /\ quake = q
        /\ maintenance_duration = md
        /\ current_time = 0
        /\ pc = "stage"
        /\ stage = 1
        /\ termination_time = 0
        /\ termination_times = <<>>
        /\ average_times = <<>>
        /\ last_event = "none"
        /\ max_event_time = 0
        /\ iterations = 0
        /\ horizon = h

\* a valid configuration: maintenance_duration is positive
Construct(h) == Build(h, 1..MaxDuration)

\* ---- Simulator.reset -----------------------------------------------------
MutResetDevice(d) ==
    [d EXCEPT !.next_maintenance = d.scale, !.failed = FALSE]

ResetDevice(d) ==
    [d EXCEPT !.next_maintenance = d.scale, !.end_maintenance = 0, !.failed = FALSE]

\* ---- the handlers of simulate --------------------------------------------
\* lines 72-79: device 1's event at time t with the drawn duration w
MutKeepFailedDevice1Maintenance(d1, d2, t, w, md) ==
    LET upd == [d1 EXCEPT !.next_maintenance = d1.next_maintenance + w,
                          !.end_maintenance = t + md]
    IN  IF t < d2.end_maintenance
        THEN [upd EXCEPT !.next_maintenance = d2.end_maintenance + 1]
        ELSE upd

MutNoDeferDevice1Maintenance(d1, d2, t, w, md) ==
    [d1 EXCEPT !.next_maintenance = d1.next_maintenance + w,
               !.end_maintenance = t + md,
               !.failed = FALSE]

MutDeferOtherDevice1Maintenance(d1, d2, t, w, md) ==
    LET upd == [d1 EXCEPT !.next_maintenance = d1.next_maintenance + w,
                          !.end_maintenance = t + md,
                          !.failed = FALSE]
    IN  IF t < d2.end_maintenance
        THEN [upd EXCEPT !.next_maintenance = upd.end_maintenance + 1]
        ELSE upd

Device1Maintenance(d1, d2, t, w, md) ==
    LET upd == [d1 EXCEPT !.next_maintenance = d1.next_maintenance + w,
                          !.end_maintenance = t + md,
                          !.failed = FALSE]
    IN  IF t < d2.end_maintenance
        THEN [upd EXCEPT !.next_maintenance = d2.end_maintenance + 1]
        ELSE upd

\* lines 81-88: device 2's event at time t with the drawn duration w
MutFromEndDevice2Maintenance(d2, d1, t, w, md) ==
    LET upd == [d2 EXCEPT !.next_maintenance = t + md + w,
                          !.end_maintenance = t + md,
                          !.failed = FALSE]
    IN  IF t < d1.end_maintenance
        THEN [upd EXCEPT !.next_maintenance = d1.end_maintenance + 1]
        ELSE upd

MutKeepFailedDevice2Maintenance(d2, d1, t, w, md) ==
    LET upd == [d2 EXCEPT !.next_maintenance = d2.next_maintenance + w,
                          !.end_maintenance = t + md]
    IN  IF t < d1.end_maintenance
        THEN [upd EXCEPT !.next_maintenance = d1.end_maintenance + 1]
        ELSE upd

Device2Maintenance(d2, d1, t, w, md) ==
    LET upd == [d2 EXCEPT !.next_maintenance = d2.next_maintenance + w,
                          !.end_maintenance = t + md,
                          !.failed = FALSE]
    IN  IF t < d1.end_maintenance
        THEN [upd EXCEPT !.next_maintenance = d1.end_maintenance + 1]
        ELSE upd

\* lines 93-98: what an earthquake at time t does to one device
MutQuakeOpensWindow(d, t, md) ==
    IF t >= d.end_maintenance
    THEN [d EXCEPT !.failed = TRUE, !.next_maintenance = t + md,
                   !.end_maintenance = t + md]
    ELSE d

MutQuakeAlwaysFails(d, t, md) ==
    [d EXCEPT !.failed = TRUE, !.next_maintenance = t + md]

QuakeOnDevice(d, t, md) ==
    IF t >= d.end_maintenance
    THEN [d EXCEPT !.failed = TRUE, !.next_maintenance = t + md]
    ELSE d

\* line 92: self.quake = current_time + np.random.weibull(3.0) * 100
MutNextQuake(t, w) == w

NextQuake(t, w) == t + w

\* ---- Simulator.simulate, one action per loop iteration ------------------
driver_vars == <<stage, termination_times, average_times>>

\* lines 57-59: simulate is entered
SimulateBegin ==
    /\ pc = "call"
    /\ current_time' = 0
    /\ last_event' = "none"
    /\ max_event_time' = 0
    /\ iterations' = 0
    /\ pc' = "loop"
    /\ UNCHANGED <<device1, device2, quake, maintenance_duration, termination_time,
                   constructed, horizon, driver_vars>>

\* line 100: the value of the return statement
MutReturnTime == next_event

ReturnTime == current_time

\* lines 62-67 and 100: the break and the return
Terminate ==
    /\ pc = "loop"
    /\ StopCondition
    /\ termination_time' = ReturnTime
    /\ pc' = "returned"
    /\ UNCHANGED <<device1, device2, quake, maintenance_duration, current_time,
                   constructed, horizon, last_event, max_event_time, iterations,
                   driver_vars>>

\* lines 72, 81, 90: which branch of the if / elif / else handles the event at time t
MutDispatch(t) ==
    IF t = device2.next_maintenance THEN "device2"
    ELSE IF t = device1.next_maintenance THEN "device1"
    ELSE "quake"

Dispatch(t) ==
    IF t = device1.next_maintenance THEN "device1"
    ELSE IF t = device2.next_maintenance THEN "device2"
    ELSE "quake"

\* line 69 (current_time = next_event) and the history of the iteration
Advance(t, ev) ==
    /\ current_time' = t
    /\ last_event' = ev
    /\ max_event_time' = IF t > max_event_time THEN t ELSE max_event_time
    /\ iterations' = iterations + 1
    /\ pc' = "loop"
    /\ UNCHANGED <<maintenance_duration, termination_time, constructed, horizon,
                   driver_vars>>

\* lines 62-79: one iteration that handles device 1's event
Device1Event ==
    /\ pc = "loop"
    /\ ~StopCondition
    /\ next_event <= horizon
    /\ Dispatch(next_event) = "device1"
    /\ \E w \in Draws :
          device1' = Device1Maintenance(device1, device2, next_event, w, maintenance_duration)
    /\ UNCHANGED <<device2, quake>>
    /\ Advance(next_event, "device1")

\* lines 62-69 and 81-88: one iteration that handles device 2's event
Device2Event ==
    /\ pc = "loop"
    /\ ~StopCondition
    /\ next_event <= horizon
    /\ Dispatch(next_event) = "device2"
    /\ \E w \in Draws :
          device2' = Device2Maintenance(device2, device1, next_event, w, maintenance_duration)
    /\ UNCHANGED <<device1, quake>>
    /\ Advance(next_event, "device2")

\* lines 62-69 and 90-98: one iteration that handles the earthquake
SeismicEvent ==
    /\ pc = "loop"
    /\ ~StopCondition
    /\ next_event <= horizon
    /\ Dispatch(next_event) = "quake"
    /\ \E w \in QuakeDraws : quake' = NextQuake(next_event, w)
    /\ device1' = QuakeOnDevice(device1, next_event, maintenance_duration)
    /\ device2' = QuakeOnDevice(device2, next_event, maintenance_duration)
    /\ Advance(next_event, "quake")

\* lines 51-55 (called at line 118)
Reset ==
    /\ pc = "reset"
    /\ device1' = ResetDevice(device1)
    /\ device2' = ResetDevice(device2)
    /\ \E q \in QuakeDraws : quake' = q
    /\ pc' = "for"
    /\ UNCHANGED <<maintenance_duration, current_time, termination_time, constructed,
                   horizon, last_event, max_event_time, iterations, driver_vars>>

\* ---- run_simulation ------------------------------------------------------
\* line 114: termination_times = []
MutNewSample == termination_times

NewSample == <<>>

\* lines 113-114: a stage begins with an empty sample
BeginStage ==
    /\ pc = "stage"
    /\ stage <= NumStages
    /\ termination_times' = NewSample
    /\ pc' = "for"
    /\ UNCHANGED <<device1, device2, quake, maintenance_duration, current_time,
                   stage, termination_time, average_times, constructed, horizon,
                   last_event, max_event_time, iterations>>

\* lines 115-116: the stage has trials left, simulate is called
NextTrial ==
    /\ pc = "for"
    /\ Len(termination_times) < simulation_runs[stage]
    /\ pc' = "call"
    /\ UNCHANGED <<device1, device2, quake, maintenance_duration, current_time,
                   termination_time, constructed, horizon, last_event,
                   max_event_time, iterations, driver_vars>>

\* line 117
AppendResult ==
    /\ pc = "returned"
    /\ termination_times' = Append(termination_times, termination_time)
    /\ pc' = "reset"
    /\ UNCHANGED <<device1, device2, quake, maintenance_duration, current_time,
                   stage, termination_time, average_times, constructed, horizon,
                   last_event, max_event_time, iterations>>

RECURSIVE SumSeq(_)
SumSeq(s) == IF s = <<>> THEN 0 ELSE Head(s) + SumSeq(Tail(s))

\* lines 120-121: np.mean of the stage's sample, kept as <<sum, count>>
EndStage ==
    /\ pc = "for"
    /\ Len(termination_times) = simulation_runs[stage]
    /\ average_times' = Append(average_times, <<SumSeq(termination_times), Len(termination_times)>>)
    /\ stage' = stage + 1
    /\ pc' = IF stage = NumStages THEN "plot" ELSE "stage"
    /\ UNCHANGED <<device1, device2, quake, maintenance_duration, current_time,
                   termination_time, termination_times, constructed, horizon,
                   last_event, max_event_time, iterations>>

\* A caller of the Simulator that follows the protocol of lines 116-118
\* (simulate, then reset, again and again) and keeps no sample.
Caller ==
    /\ pc \in {"stage", "for", "returned"}
    /\ pc' = IF pc = "returned" THEN "reset" ELSE "call"
    /\ UNCHANGED <<device1, device2, quake, maintenance_duration, current_time,
                   termination_time, constructed, horizon, last_event,
                   max_event_time, iterations, driver_vars>>

\* ---- specifications ------------------------------------------------------
\* The Simulator under the call protocol of the driver, long trials.
Init == Construct(MaxTime)

Next ==
    \/ Caller
    \/ SimulateBegin
    \/ Terminate
    \/ Device1Event
    \/ Device2Event
    \/ SeismicEvent
    \/ Reset

Spec == Init /\ [][Next]_vars

\* run_simulation with its stages and samples, short trials.
DriverInit == Construct(DriverMaxTime)

DriverNext ==
    \/ BeginStage
    \/ NextTrial
    \/ SimulateBegin
    \/ Terminate
    \/ Device1Event
    \/ Device2Event
    \/ SeismicEvent
    \/ AppendResult
    \/ Reset
    \/ EndStage

DriverSpec == DriverInit /\ [][DriverNext]_vars

\* Simulator.__init__ stores its arguments as they are: the Simulator
\* constructed with any maintenance_duration, zero included.
UncheckedInit == Build(MaxTime, 0..MaxDuration)

UncheckedSpec == UncheckedInit /\ [][Next]_vars

TypeOK ==
    /\ pc \in {"stage", "for", "call", "loop", "returned", "reset", "plot"}
    /\ current_time \in 0..horizon
    /\ last_event \in {"none", "device1", "device2", "quake"}
    /\ device1.failed \in BOOLEAN /\ device2.failed \in BOOLEAN

\* ==== claims ===============================================================

\* a step that is one handled (non-terminating) iteration of the loop
HandledStep == pc = "loop" /\ pc' = "loop" /\ iterations' = iterations + 1

\* C1: when the selected event is the quake and, at the unadvanced
\* current_time, both devices are inside their windows, the iteration ends
\* the trial without advancing current_time, and the value returned is that
\* unadvanced current_time.
C1_QuakeDuringDoubleMaintenance ==
    [][(pc = "loop" /\ next_event = quake /\ BothInMaintenance(current_time))
        => /\ pc' = "returned"
           /\ current_time' = current_time
           /\ termination_time' = current_time
           /\ iterations' = iterations]_vars

C1_Witness ==
    /\ pc = "returned"
    /\ iterations > 0
    /\ BothInMaintenance(current_time)
    /\ termination_time = current_time
    /\ current_time < quake

\* C2: a handled iteration runs exactly one handler, device 1's if the
\* event time equals device1.next_maintenance, else device 2's if it equals
\* device2.next_maintenance, else the seismic one; a device's handler leaves
\* the other device and the quake time alone.
C2_DispatchPriority ==
    [][HandledStep =>
        LET t == next_event IN
        /\ t = device1.next_maintenance
             => /\ last_event' = "device1"
                /\ device1'.end_maintenance = t + maintenance_duration
                /\ device2' = device2 /\ quake' = quake
        /\ (t # device1.next_maintenance /\ t = device2.next_maintenance)
             => /\ last_event' = "device2"
                /\ device2'.end_maintenance = t + maintenance_duration
                /\ device1' = device1 /\ quake' = quake
        /\ (t # device1.next_maintenance /\ t # device2.next_maintenance)
             => /\ last_event' = "quake"
                /\ quake' > t
                /\ device1'.end_maintenance = device1.end_maintenance
                /\ device2'.end_maintenance = device2.end_maintenance]_vars

\* device 1 has just been handled at a time at which device 2 and the quake
\* were due as well
C2_Witness ==
    /\ pc = "loop"
    /\ last_event = "device1"
    /\ device2.next_maintenance = current_time
    /\ quake = current_time

\* the event of device A is selected while device B is inside its window
Deferred1 ==
    /\ HandledStep
    /\ next_event = device1.next_maintenance
    /\ next_event < device2.end_maintenance

Deferred2 ==
    /\ HandledStep
    /\ next_event # device1.next_maintenance
    /\ next_event = device2.next_maintenance
    /\ next_event < device1.end_maintenance

SeismicStep ==
    /\ HandledStep
    /\ next_event # device1.next_maintenance
    /\ next_event # device2.next_maintenance

QuakeEffect(d, dn, t) ==
    /\ d.end_maintenance <= t
         => /\ dn.failed = TRUE
            /\ dn.next_maintenance = t + maintenance_duration
            /\ dn.end_maintenance = d.end_maintenance
            /\ dn.name = d.name /\ dn.shape = d.shape /\ dn.scale = d.scale
    /\ d.end_maintenance > t => dn = d

\* C4: the seismic handler at time t fails every device with
\* end_maintenance <= t and sets its next_maintenance to
\* t + maintenance_duration; a device with end_maintenance > t is unchanged;
\* each device independently of the other.
C4_FailureMarking ==
    [][SeismicStep => /\ QuakeEffect(device1, device1', next_event)
                      /\ QuakeEffect(device2, device2', next_event)]_vars

\* a quake has just failed device 1 while device 2 was inside its window
C4_Witness ==
    /\ pc = "loop"
    /\ last_event = "quake"
    /\ device1.failed
    /\ device1.next_maintenance = current_time + maintenance_duration
    /\ current_time < device2.end_maintenance
    /\ ~device2.failed
    /\ device2.next_maintenance # current_time + maintenance_duration

\* C5: within a trial current_time never decreases, the selected minimum is
\* never below current_time, and the returned value is at least the time of
\* every event handled in the trial.
C5_Monotonic ==
    /\ [](pc = "loop" => next_event >= current_time)
    /\ [][HandledStep => current_time' >= current_time]_vars
    /\ [](pc = "returned" => termination_time >= max_event_time)

C5_Witness ==
    /\ pc = "returned"
    /\ iterations >= 3
    /\ last_event = "device2"
    /\ termination_time = max_event_time
    /\ termination_time > 0

C7_Original ==
    pc = "returned" => (quake < device1.end_maintenance /\ quake < device2.end_maintenance)

\* a step of Simulator.reset
ResetStep == pc = "reset" /\ pc' = "for"

\* C8 as stated: after reset each device has failed = false,
\* end_maintenance = 0 and the next_maintenance it was constructed with;
\* name, shape and scale are unchanged.
C8_Original ==
    [][ResetStep =>
        \A i \in {1, 2} :
            LET dn == IF i = 1 THEN device1' ELSE device2'
                d  == IF i = 1 THEN device1 ELSE device2
            IN  /\ dn.failed = FALSE
                /\ dn.end_maintenance = 0
                /\ dn.next_maintenance = constructed[i].next_maintenance
                /\ dn.name = d.name /\ dn.shape = d.shape /\ dn.scale = d.scale]_vars

\* C9 as stated: whenever a call of simulate begins, the first included,
\* both devices are in the state reset leaves them in.
C9_Original ==
    (pc = "loop" /\ iterations = 0)
        => /\ device1 = ResetDevice(device1)
           /\ device2 = ResetDevice(device2)
           /\ quake \in QuakeDraws

\* C10 as stated: a trial never returns a negative time and never handles
\* more iterations than a safety cap.
C10_Original ==
    /\ pc = "returned" => termination_time >= 0
    /\ iterations <= SafetyCap

\* C11 as stated: every handled event leaves current_time strictly greater
\* than before, and every seismic resampling leaves the quake time strictly
\* greater than it was.
C11_Original ==
    /\ [][HandledStep => current_time' > current_time]_vars
    /\ [][SeismicStep => quake' > quake]_vars

\* C11 amended: a handled event never decreases current_time and strictly
\* increases it unless the event is tied in time with the event handled just
\* before it; tied events are handled at the same current_time in priority
\* order (device 1, then device 2, then the quake), so at most three events
\* share one time.  Every seismic resampling leaves the quake time strictly
\* greater than it was.
C11_ProgressExceptTies ==
    /\ [][HandledStep =>
            /\ current_time' >= current_time
            /\ (current_time' = current_time /\ iterations > 0)
                 => \/ last_event = "device1" /\ last_event' \in {"device2", "quake"}
                    \/ last_event = "device2" /\ last_event' = "quake"]_vars
    /\ [][SeismicStep => (quake' > quake /\ quake' > current_time')]_vars

\* the quake has just been handled at the time at which device 2 was
\* handled before it, and has been resampled
C11_Witness ==
    /\ pc = "loop"
    /\ last_event = "quake"
    /\ iterations >= 2
    /\ device2.end_maintenance = current_time + maintenance_duration
    /\ maintenance_duration > 0
    /\ quake > current_time

\* C12: stage i runs exactly simulation_runs[i] trials and records exactly
\* one mean, computed from the sample of that stage alone: the sample is
\* emptied when a stage begins, grows by the returned time of each trial
\* and is averaged when it holds simulation_runs[stage] times; the finished
\* driver has one mean per stage, in schedule order.
C12_OneMeanPerStage ==
    /\ [](/\ Len(average_times) = stage - 1
          /\ \A i \in 1..Len(average_times) : average_times[i][2] = simulation_runs[i]
          /\ pc = "plot" => Len(average_times) = NumStages
          /\ pc # "plot" => Len(termination_times) <= simulation_runs[stage])
    /\ [][/\ (pc = "stage" /\ pc' = "for") => termination_times' = <<>>
          /\ (pc = "returned" /\ pc' = "reset")
                => termination_times' = Append(termination_times, termination_time)
          /\ stage' # stage
                => /\ Len(termination_times) = simulation_runs[stage]
                   /\ stage' = stage + 1
                   /\ average_times' = Append(average_times,
                          <<SumSeq(termination_times), simulation_runs[stage]>>)
          /\ (stage' = stage /\ pc # "stage" /\ pc # "returned")
                => (termination_times' = termination_times /\ average_times' = average_times)
          /\ stage' = stage => average_times' = average_times]_vars

\* the driver has finished its last stage, whose sample is complete
C12_Witness ==
    /\ pc = "plot"
    /\ Len(average_times) = NumStages
    /\ NumStages >= 2
    /\ Len(termination_times) = simulation_runs[NumStages]
    /\ average_times[NumStages] = <<SumSeq(termination_times), simulation_runs[NumStages]>>
    /\ average_times[1][2] < average_times[NumStages][2]

\* C13 as stated: no trial is ever run by a Simulator that was constructed
\* with an invalid configuration (here: a non-positive maintenance_duration).
C13_Original ==
    pc \in {"loop", "returned"} => maintenance_duration > 0

\* the event of device A is selected while device B is not inside its window
Undeferred1 ==
    /\ HandledStep
    /\ next_event = device1.next_maintenance
    /\ next_event >= device2.end_maintenance

Undeferred2 ==
    /\ HandledStep
    /\ next_event # device1.next_maintenance
    /\ next_event = device2.next_maintenance
    /\ next_event >= device1.end_maintenance

C15_Original ==
    pc = "returned"
        => (quake < device1.next_maintenance /\ quake < device2.next_maintenance)

\* C15 amended: the termination check applies whenever the quake time equals
\* the minimum of the three times: a trial terminates only when the quake
\* time is less than or equal to both devices' next_maintenance (and both
\* windows are open at current_time); on a tie between the quake and a
\* device it terminates although the dispatch priority would select the
\* device.
C15_TerminatesOnlyAtQuakeMinimum ==
    [][(pc = "loop" /\ pc' = "returned")
        => /\ quake <= device1.next_maintenance
           /\ quake <= device2.next_maintenance
           /\ BothInMaintenance(current_time)
           /\ UNCHANGED <<device1, device2, quake>>]_vars

\* a trial has terminated with the quake tied with device 1's next event
C15_Witness ==
    /\ pc = "returned"
    /\ quake = device1.next_maintenance
    /\ quake <= device2.next_maintenance
    /\ Dispatch(next_event) = "device1"

\* what one handled iteration does to a device d that is failed before it
\* (dn is the device after it, ev the handler of d)
FailedDeviceStep(d, dn, ev) ==
    (HandledStep /\ d.failed)
        => /\ last_event' = ev
                => /\ current_time' = d.next_maintenance
                   /\ dn.failed = FALSE
           /\ last_event' = "quake"
                => /\ dn.failed = TRUE
                   /\ dn.next_maintenance = current_time' + maintenance_duration
           /\ last_event' \notin {ev, "quake"} => dn = d

\* C16 as stated: once a seismic event at t has marked a device failed, its
\* repair stays scheduled at t + maintenance_duration for as long as the
\* device is failed.
C16_Original ==
    /\ [][SeismicStep =>
            /\ next_event >= device1.end_maintenance
                 => device1'.next_maintenance = next_event + maintenance_duration
            /\ next_event >= device2.end_maintenance
                 => device2'.next_maintenance = next_event + maintenance_duration]_vars
    /\ [][(HandledStep /\ device1.failed /\ device1'.failed)
            => device1'.next_maintenance = device1.next_maintenance]_vars
    /\ [][(HandledStep /\ device2.failed /\ device2'.failed)
            => device2'.next_maintenance = device2.next_maintenance]_vars

\* C16 amended: a device marked failed by a seismic event at t is repaired
\* by its own maintenance handler, which fires at the device's
\* next_maintenance and clears failed, unless the trial terminates first.
\* That time is t + maintenance_duration unless another seismic event occurs
\* before it: each further seismic event at t2 finds the device outside its
\* window again and moves the repair to t2 + maintenance_duration.  failed
\* stays true from t until the repair event; the other device's events
\* leave the failed device unchanged.
C16_RepairAfterLatestQuake ==
    /\ [][SeismicStep =>
            /\ next_event >= device1.end_maintenance
                 => (device1'.failed
                     /\ device1'.next_maintenance = next_event + maintenance_duration)
            /\ next_event >= device2.end_maintenance
                 => (device2'.failed
                     /\ device2'.next_maintenance = next_event + maintenance_duration)]_vars
    /\ [][FailedDeviceStep(device1, device1', "device1")]_vars
    /\ [][FailedDeviceStep(device2, device2', "device2")]_vars
    /\ [](pc = "loop" =>
            /\ device1.failed
                 => (current_time <= device1.next_maintenance
                     /\ device1.next_maintenance <= current_time + maintenance_duration)
            /\ device2.failed
                 => (current_time <= device2.next_maintenance
                     /\ device2.next_maintenance <= current_time + maintenance_duration))

\* two seismic events and no device event so far in the trial: the second
\* one has found device 1 failed and has moved its repair
C16_Witness ==
    /\ pc = "loop"
    /\ iterations = 2
    /\ last_event = "quake"
    /\ device1.end_maintenance = 0
    /\ device2.end_maintenance = 0
    /\ device1.failed
    /\ device1.next_maintenance = current_time + maintenance_duration
    /\ current_time >= 2

\* C17: in every state of a trial a device that is inside its window is not
\* failed, for both devices.
C17_InWindowNotFailed ==
    pc \in {"loop", "returned"}
        => /\ current_time < device1.end_maintenance => ~device1.failed
           /\ current_time < device2.end_maintenance => ~device2.failed

\* a quake has just failed device 2 and has left device 1, which is inside
\* its window, not failed
C17_Witness ==
    /\ pc = "loop"
    /\ last_event = "quake"
    /\ current_time < device1.end_maintenance
    /\ ~device1.failed
    /\ device2.failed
    /\ current_time >= device2.end_maintenance
    /\ device2.end_maintenance > 0

\* C18: a device event changes only next_maintenance, end_maintenance and
\* failed of the device whose event fired: the other device, the quake time
\* and the firing device's name, shape and scale are unchanged; the seismic
\* handler changes neither device's end_maintenance (nor name, shape, scale).
C18_Frame ==
    [][HandledStep =>
        /\ last_event' = "device1"
             => /\ device2' = device2 /\ quake' = quake
                /\ device1'.name = device1.name
                /\ device1'.shape = device1.shape
                /\ device1'.scale = device1.scale
        /\ last_event' = "device2"
             => /\ device1' = device1 /\ quake' = quake
                /\ device2'.name = device2.name
                /\ device2'.shape = device2.shape
                /\ device2'.scale = device2.scale
        /\ last_event' = "quake"
             => /\ device1'.end_maintenance = device1.end_maintenance
                /\ device2'.end_maintenance = device2.end_maintenance
                /\ device1'.name = device1.name /\ device2'.name = device2.name
                /\ device1'.shape = device1.shape /\ device2'.shape = device2.shape
                /\ device1'.scale = device1.scale /\ device2'.scale = device2.scale
        /\ maintenance_duration' = maintenance_duration]_vars

\* a quake has just failed device 1, which had been maintained before: its
\* closed window is still recorded
C18_Witness ==
    /\ pc = "loop"
    /\ last_event = "quake"
    /\ device1.failed
    /\ device1.end_maintenance > 0
    /\ device1.end_maintenance <= current_time
    /\ device1.next_maintenance = current_time + maintenance_duration
    /\ device1.scale = constructed[1].scale

\* the end_maintenance of the device handled last
LastHandledEnd ==
    IF last_event = "device1" THEN device1.end_maintenance
    ELSE device2.end_maintenance

\* C19: the event handled just before a trial terminates is a device event,
\* never a seismic one; a trial does not terminate in its first iteration;
\* the returned time is strictly positive and is the time at which the
\* device handled last opened its window (the later of the two windows).
C19_TerminatesAfterDeviceEvent ==
    pc = "returned"
        => /\ last_event \in {"device1", "device2"}
           /\ iterations >= 2
           /\ termination_time > 0
           /\ termination_time = current_time
           /\ LastHandledEnd = termination_time + maintenance_duration
           /\ device1.end_maintenance <= LastHandledEnd
           /\ device2.end_maintenance <= LastHandledEnd
           /\ BothInMaintenance(termination_time)

\* a trial has terminated after a deferred event of device 2 that opened
\* the later of two different windows
C19_Witness ==
    /\ pc = "returned"
    /\ last_event = "device2"
    /\ device1.end_maintenance < device2.end_maintenance
    /\ termination_time + maintenance_duration = device2.end_maintenance
    /\ termination_time < quake

====
